---- MODULE Spec2Model ----
(***************************************************************************)
(* Model of kedro's HDFLocalDataSet (a versioned, path-based dataset) and  *)
(* of SharedMemoryDataset (a proxy to a MemoryDataset hosted in a          *)
(* SyncManager).                                                           *)
(*                                                                         *)
(* Spec      : the versioned store, several handles saving, loading and    *)
(*             probing one base path concurrently.                         *)
(* ProxySpec : the shared-memory proxy, several workers using one proxy.   *)
(***************************************************************************)
EXTENDS Integers, Sequences, FiniteSets, TLC

VARIABLES
    fs,          \* the file system under the base path: path -> hdf file
    clock,       \* the wall clock generate_timestamp() reads
    version,     \* per handle: the Version(load, save) it was constructed with
    key,         \* per handle: self._key
    cachedSave,  \* per handle: the save version generated once, or NoVersion
    pc,          \* per handle: position inside _save / _load
    savePath,    \* per handle: local save_path of a running _save
    loadPath,    \* per handle: local load_path of a running _load
    result,      \* per handle: outcome of its last operation, once it returned
    saved,       \* per handle: the data its caller passed to the last save
    shared_memory_dataset,  \* the proxy's container reference, NoContainer if None
    created,     \* how many containers the manager has created
    containers,  \* the manager's MemoryDatasets: container -> stored artifact
    presult      \* per worker: outcome of its last proxy call

hdfVars ==
    <<fs, clock, version, key, cachedSave, pc, savePath, loadPath, result, saved>>

proxyVars == <<shared_memory_dataset, created, containers, presult>>

vars == <<hdfVars, proxyVars>>

----------------------------------------------------------------------------
(* Bounds *)

MaxClock == 2        \* the clock runs from 1 to MaxClock
NumData  == 2        \* distinct data frames a caller may save
VerWidth == 3        \* digits of a formatted timestamp
Radix    == 2        \* digit base of a formatted timestamp
MaxContainers == 2   \* containers one manager creates

Handles == {"h1", "h2"}

Data   == 1..NumData
NoData == 0

----------------------------------------------------------------------------
(* Versions and paths *)

RECURSIVE Pow(_, _)
Pow(b, n) == IF n = 0 THEN 1 ELSE b * Pow(b, n - 1)

\* generate_timestamp(): the clock formatted as a fixed-width digit string.
Timestamp(c) == [i \in 1..VerWidth |-> (c \div Pow(Radix, VerWidth - i)) % Radix]

Versions  == {Timestamp(c) : c \in 1..MaxClock}
NoVersion == << >>

BasePath == "base"
FileName == "file"

\* base_path/version/filename
VersionedPath(v) == <<BasePath, v, FileName>>

Paths  == {VersionedPath(v) : v \in Versions}
NoPath == << >>

\* String order of two version strings, as sorted() compares them.
RECURSIVE LexLess(_, _)
LexLess(s, t) ==
    IF s = << >> THEN t # << >>
    ELSE IF t = << >> THEN FALSE
    ELSE IF Head(s) # Head(t) THEN Head(s) < Head(t)
    ELSE LexLess(Tail(s), Tail(t))

\* String order of two paths below the same base path.
PathLess(p, q) == LexLess(p[2], q[2])

----------------------------------------------------------------------------
(* HDF files *)

HandleKeys == {<<"k">>, <<"/", "k">>, <<"j">>}

\* key_with_slash: the name of the group inside the store.
KeyWithSlash(k) == IF Len(k) > 0 /\ Head(k) = "/" THEN k ELSE <<"/">> \o k

StoreKeys == {KeyWithSlash(k) : k \in HandleKeys}

NoFile == [isFile |-> FALSE, groups |-> [g \in StoreKeys |-> NoData]]

\* Path(path).is_file()
IsFile(f, p) == f[p].isFile

\* data.to_hdf(path, key): creates the file if needed, (re)writes one group.
ToHdf(file, k, d) ==
    [isFile |-> TRUE, groups |-> [file.groups EXCEPT ![KeyWithSlash(k)] = d]]

\* hdfstore.keys()
HdfKeys(file) == {g \in StoreKeys : file.groups[g] # NoData}

\* pd.read_hdf(path, key): the data of the group, NoData when there is none.
ReadHdf(file, k) == file.groups[KeyWithSlash(k)]

----------------------------------------------------------------------------
(* Version resolution (AbstractVersionedDataSet) *)

ExistingPaths(f) == {p \in Paths : IsFile(f, p)}

\* The greatest existing path in string order.
MostRecent(f) ==
    CHOOSE p \in ExistingPaths(f) : \A q \in ExistingPaths(f) : q = p \/ PathLess(q, p)

\* _get_load_path(): NoPath stands for the raised "not found" DataSetError.
GetLoadPath(lv, f) ==
    IF lv # NoVersion
    THEN IF IsFile(f, VersionedPath(lv)) THEN VersionedPath(lv) ELSE NoPath
    ELSE IF ExistingPaths(f) = {} THEN NoPath ELSE MostRecent(f)

\* The save version _get_save_path() uses: the given one, else the one
\* generated on first need and kept for the handle's lifetime.
SaveVersion(given, cached, now) ==
    IF given # NoVersion THEN given
    ELSE IF cached # NoVersion THEN cached
    ELSE Timestamp(now)

\* _check_paths_consistency(load_path, save_path), skipped for a pinned load.
CheckPathsConsistency(lv, lp, sp) ==
    IF lv = NoVersion /\ lp # sp THEN "ConsistencyError" ELSE "ok"

----------------------------------------------------------------------------
(* Outcomes *)

NoResult == [op |-> "none", kind |-> "none", val |-> NoData]

Returned(op, kind, val) == [op |-> op, kind |-> kind, val |-> val]

----------------------------------------------------------------------------
(* Shared-memory proxy: artifacts, the manager's containers, outcomes *)

Workers == {"w1", "w2"}

Classes == {"DataFrame", "Socket"}

Artifacts  == [cls : Classes, val : Data]
NoArtifact == [cls |-> "NoneType", val |-> NoData]

\* Whether pickle.dumps(data) succeeds.
Picklable(a) == a.cls # "Socket"

\* str(data.__class__)
ClassStr(a) == <<"<class '", a.cls, "'>">>

NoContainer  == 0
ContainerIds == 1..MaxContainers

NoMessage == << >>

Raised(kind, msg) == [kind |-> kind, msg |-> msg]

Accepted == Raised("ok", NoMessage)

\* What a call into the manager's container may raise for reasons of its own.
RemoteFaults ==
    {Raised("ConnectionError", <<"connection lost">>),
     Raised("PicklingError", <<"cannot pickle">>)}

\* Outcomes of the remote save(data): accepted, or a fault.
RemoteSaveOutcomes == {Accepted} \cup RemoteFaults

\* Dereferencing None: self.shared_memory_dataset.<name> on an unbound proxy.
NoneAttribute(name) ==
    Raised("AttributeError", <<"'NoneType' object has no attribute '", name, "'">>)

\* MemoryDataset.load() on a container nothing was saved to.
RemoteLoadEmpty ==
    Raised("DatasetError", <<"Data for MemoryDataset has not been saved yet.">>)

\* The DatasetError _save raises when the data cannot be pickled.
CannotBeSerialised(a) ==
    Raised("DatasetError",
           ClassStr(a) \o <<" cannot be serialised. ParallelRunner ",
                            "implicit memory datasets can only be used with serialisable data">>)

NoProxyResult ==
    [op |-> "none", kind |-> "none", msg |-> NoMessage, val |-> NoArtifact,
     arg |-> NoArtifact, remote |-> FALSE, dryRun |-> FALSE, fault |-> Accepted]

\* The proxy part at rest, for behaviours of the versioned store alone.
ProxyUnused ==
    /\ shared_memory_dataset = NoContainer
    /\ created = 0
    /\ containers = [c \in ContainerIds |-> NoArtifact]
    /\ presult = [w \in Workers |-> NoProxyResult]

----------------------------------------------------------------------------
(* Initial state: handles constructed, nothing saved yet *)

\* The versioned store at rest, for behaviours of the proxy alone.
StoreUnused ==
    /\ fs = [p \in Paths |-> NoFile]
    /\ clock = 1
    /\ version = [h \in Handles |-> [load |-> NoVersion, save |-> NoVersion]]
    /\ key = [h \in Handles |-> <<"k">>]
    /\ cachedSave = [h \in Handles |-> NoVersion]
    /\ pc = [h \in Handles |-> "idle"]
    /\ savePath = [h \in Handles |-> NoPath]
    /\ loadPath = [h \in Handles |-> NoPath]
    /\ result = [h \in Handles |-> NoResult]
    /\ saved = [h \in Handles |-> NoData]

Init ==
    /\ fs = [p \in Paths |-> NoFile]
    /\ clock = 1
    /\ version \in [Handles -> [load : Versions \cup {NoVersion},
                                save : Versions \cup {NoVersion}]]
    /\ key \in [Handles -> HandleKeys]
    /\ key["h1"] = <<"k">>
    /\ key["h2"] \in {<<"/", "k">>, <<"j">>}
    /\ cachedSave = [h \in Handles |-> NoVersion]
    /\ pc = [h \in Handles |-> "idle"]
    /\ savePath = [h \in Handles |-> NoPath]
    /\ loadPath = [h \in Handles |-> NoPath]
    /\ result = [h \in Handles |-> NoResult]
    /\ saved = [h \in Handles |-> NoData]
    /\ ProxyUnused

----------------------------------------------------------------------------
(* Faulty variants of the store's operations, used to test the properties *)

\* _save that generates a fresh timestamp on every call instead of reusing
\* the one it generated first.
SaveWrite_Regenerate(h, d) ==
    /\ pc[h] = "idle"
    /\ LET sv == SaveVersion(version[h].save, NoVersion, clock)
           sp == VersionedPath(sv)
       IN /\ cachedSave' = [cachedSave EXCEPT
                               ![h] = IF version[h].save = NoVersion THEN sv ELSE @]
          /\ savePath' = [savePath EXCEPT ![h] = sp]
          /\ fs' = [fs EXCEPT ![sp] = ToHdf(@, key[h], d)]
    /\ pc' = [pc EXCEPT ![h] = "save_written"]
    /\ result' = [result EXCEPT ![h] = NoResult]
    /\ saved' = [saved EXCEPT ![h] = d]
    /\ UNCHANGED <<clock, version, key, loadPath>>
    /\ UNCHANGED proxyVars

\* _save that writes the data at the load path when there is one.
SaveWrite_AtLoadPath(h, d) ==
    /\ pc[h] = "idle"
    /\ LET sv == SaveVersion(version[h].save, cachedSave[h], clock)
           sp == VersionedPath(sv)
           lp == GetLoadPath(version[h].load, fs)
           wp == IF lp = NoPath THEN sp ELSE lp
       IN /\ cachedSave' = [cachedSave EXCEPT
                               ![h] = IF version[h].save = NoVersion THEN sv ELSE @]
          /\ savePath' = [savePath EXCEPT ![h] = sp]
          /\ fs' = [fs EXCEPT ![wp] = ToHdf(@, key[h], d)]
    /\ pc' = [pc EXCEPT ![h] = "save_written"]
    /\ result' = [result EXCEPT ![h] = NoResult]
    /\ saved' = [saved EXCEPT ![h] = d]
    /\ UNCHANGED <<clock, version, key, loadPath>>
    /\ UNCHANGED proxyVars

\* _save that never compares the load path with the save path.
SaveCheck_NoCheck(h) ==
    /\ pc[h] = "save_written"
    /\ LET lp == GetLoadPath(version[h].load, fs)
       IN result' = [result EXCEPT ![h] =
              IF lp = NoPath
              THEN Returned("save", "NotFoundError", NoData)
              ELSE Returned("save", "ok", NoData)]
    /\ pc' = [pc EXCEPT ![h] = "idle"]
    /\ savePath' = [savePath EXCEPT ![h] = NoPath]
    /\ UNCHANGED <<fs, clock, version, key, cachedSave, loadPath, saved>>
    /\ UNCHANGED proxyVars

\* _save that removes the file it wrote when the paths disagree.
SaveCheck_Rollback(h) ==
    /\ pc[h] = "save_written"
    /\ LET lp   == GetLoadPath(version[h].load, fs)
           kind == CheckPathsConsistency(version[h].load, lp, savePath[h])
       IN /\ result' = [result EXCEPT ![h] =
                 IF lp = NoPath
                 THEN Returned("save", "NotFoundError", NoData)
                 ELSE Returned("save", kind, NoData)]
          /\ fs' = IF lp # NoPath /\ kind = "ConsistencyError"
                   THEN [fs EXCEPT ![savePath[h]] = NoFile]
                   ELSE fs
    /\ pc' = [pc EXCEPT ![h] = "idle"]
    /\ savePath' = [savePath EXCEPT ![h] = NoPath]
    /\ UNCHANGED <<clock, version, key, cachedSave, loadPath, saved>>
    /\ UNCHANGED proxyVars

\* _load that reads from the save path.
LoadResolve_SavePath(h) ==
    /\ pc[h] = "idle"
    /\ LET lp == VersionedPath(SaveVersion(version[h].save, cachedSave[h], clock))
       IN /\ result' = [result EXCEPT ![h] = NoResult]
          /\ pc' = [pc EXCEPT ![h] = "load_resolved"]
          /\ loadPath' = [loadPath EXCEPT ![h] = lp]
    /\ UNCHANGED <<fs, clock, version, key, cachedSave, savePath, saved>>
    /\ UNCHANGED proxyVars

\* _load that ignores the pinned load version.
LoadResolve_Latest(h) ==
    /\ pc[h] = "idle"
    /\ LET lp == GetLoadPath(NoVersion, fs)
       IN IF lp = NoPath
          THEN /\ result' = [result EXCEPT
                                ![h] = Returned("load", "NotFoundError", NoData)]
               /\ UNCHANGED <<pc, loadPath>>
          ELSE /\ result' = [result EXCEPT ![h] = NoResult]
               /\ pc' = [pc EXCEPT ![h] = "load_resolved"]
               /\ loadPath' = [loadPath EXCEPT ![h] = lp]
    /\ UNCHANGED <<fs, clock, version, key, cachedSave, savePath, saved>>
    /\ UNCHANGED proxyVars

\* _exists that looks the key up as given, without the leading slash.
Exists_RawKey(h) ==
    /\ pc[h] = "idle"
    /\ LET path == GetLoadPath(version[h].load, fs)
       IN result' = [result EXCEPT ![h] =
              IF path = NoPath
              THEN Returned("exists", "false", NoData)
              ELSE IF IsFile(fs, path) /\ key[h] \in HdfKeys(fs[path])
              THEN Returned("exists", "true", NoData)
              ELSE Returned("exists", "false", NoData)]
    /\ UNCHANGED <<fs, clock, version, key, cachedSave, pc, savePath, loadPath,
                   saved>>
    /\ UNCHANGED proxyVars

\* _exists that does not look for the key in the file.
Exists_NoKeyCheck(h) ==
    /\ pc[h] = "idle"
    /\ LET path == GetLoadPath(version[h].load, fs)
       IN result' = [result EXCEPT ![h] =
              IF path = NoPath
              THEN Returned("exists", "false", NoData)
              ELSE IF IsFile(fs, path)
              THEN Returned("exists", "true", NoData)
              ELSE Returned("exists", "false", NoData)]
    /\ UNCHANGED <<fs, clock, version, key, cachedSave, pc, savePath, loadPath,
                   saved>>
    /\ UNCHANGED proxyVars

\* _save that compares the save path with the oldest existing version.
SaveCheck_Oldest(h) ==
    /\ pc[h] = "save_written"
    /\ LET oldest == CHOOSE p \in ExistingPaths(fs) :
                         \A q \in ExistingPaths(fs) : q = p \/ PathLess(p, q)
           lp == IF version[h].load # NoVersion
                 THEN GetLoadPath(version[h].load, fs)
                 ELSE IF ExistingPaths(fs) = {} THEN NoPath ELSE oldest
       IN result' = [result EXCEPT ![h] =
              IF lp = NoPath
              THEN Returned("save", "NotFoundError", NoData)
              ELSE Returned("save",
                            CheckPathsConsistency(version[h].load, lp, savePath[h]),
                            NoData)]
    /\ pc' = [pc EXCEPT ![h] = "idle"]
    /\ savePath' = [savePath EXCEPT ![h] = NoPath]
    /\ UNCHANGED <<fs, clock, version, key, cachedSave, loadPath, saved>>
    /\ UNCHANGED proxyVars

----------------------------------------------------------------------------
(* Actions *)

\* Time passes.
Tick ==
    /\ clock < MaxClock
    /\ clock' = clock + 1
    /\ UNCHANGED <<fs, version, key, cachedSave, pc, savePath, loadPath, result,
                   saved>>
    /\ UNCHANGED proxyVars

\* _save, first half: resolve the save path, create the directory, write.
SaveWrite(h, d) ==
    /\ pc[h] = "idle"
    /\ LET sv == SaveVersion(version[h].save, cachedSave[h], clock)
           sp == VersionedPath(sv)
       IN /\ cachedSave' = [cachedSave EXCEPT
                               ![h] = IF version[h].save = NoVersion THEN sv ELSE @]
          /\ savePath' = [savePath EXCEPT ![h] = sp]
          /\ fs' = [fs EXCEPT ![sp] = ToHdf(@, key[h], d)]
    /\ pc' = [pc EXCEPT ![h] = "save_written"]
    /\ result' = [result EXCEPT ![h] = NoResult]
    /\ saved' = [saved EXCEPT ![h] = d]
    /\ UNCHANGED <<clock, version, key, loadPath>>
    /\ UNCHANGED proxyVars

\* _save, second half: resolve the load path and compare it with the save path.
SaveCheck(h) ==
    /\ pc[h] = "save_written"
    /\ LET lp == GetLoadPath(version[h].load, fs)
       IN result' = [result EXCEPT ![h] =
              IF lp = NoPath
              THEN Returned("save", "NotFoundError", NoData)
              ELSE Returned("save",
                            CheckPathsConsistency(version[h].load, lp, savePath[h]),
                            NoData)]
    /\ pc' = [pc EXCEPT ![h] = "idle"]
    /\ savePath' = [savePath EXCEPT ![h] = NoPath]
    /\ UNCHANGED <<fs, clock, version, key, cachedSave, loadPath, saved>>
    /\ UNCHANGED proxyVars

\* _load, first half: resolve the load path.
LoadResolve(h) ==
    /\ pc[h] = "idle"
    /\ LET lp == GetLoadPath(version[h].load, fs)
       IN IF lp = NoPath
          THEN /\ result' = [result EXCEPT
                                ![h] = Returned("load", "NotFoundError", NoData)]
               /\ UNCHANGED <<pc, loadPath>>
          ELSE /\ result' = [result EXCEPT ![h] = NoResult]
               /\ pc' = [pc EXCEPT ![h] = "load_resolved"]
               /\ loadPath' = [loadPath EXCEPT ![h] = lp]
    /\ UNCHANGED <<fs, clock, version, key, cachedSave, savePath, saved>>
    /\ UNCHANGED proxyVars

\* _load, second half: read the handle's group from the file.
LoadRead(h) ==
    /\ pc[h] = "load_resolved"
    /\ LET d == ReadHdf(fs[loadPath[h]], key[h])
       IN result' = [result EXCEPT ![h] =
              IF d = NoData
              THEN Returned("load", "KeyError", NoData)
              ELSE Returned("load", "ok", d)]
    /\ pc' = [pc EXCEPT ![h] = "idle"]
    /\ loadPath' = [loadPath EXCEPT ![h] = NoPath]
    /\ UNCHANGED <<fs, clock, version, key, cachedSave, savePath, saved>>
    /\ UNCHANGED proxyVars

\* _exists
Exists(h) ==
    /\ pc[h] = "idle"
    /\ LET path == GetLoadPath(version[h].load, fs)
       IN result' = [result EXCEPT ![h] =
              IF path = NoPath
              THEN Returned("exists", "false", NoData)
              ELSE IF IsFile(fs, path) /\ KeyWithSlash(key[h]) \in HdfKeys(fs[path])
              THEN Returned("exists", "true", NoData)
              ELSE Returned("exists", "false", NoData)]
    /\ UNCHANGED <<fs, clock, version, key, cachedSave, pc, savePath, loadPath,
                   saved>>
    /\ UNCHANGED proxyVars

Next ==
    \/ Tick
    \/ \E h \in Handles, d \in Data : SaveWrite(h, d)
    \/ \E h \in Handles : SaveCheck(h)
    \/ \E h \in Handles : LoadResolve(h)
    \/ \E h \in Handles : LoadRead(h)
    \/ \E h \in Handles : Exists(h)

Spec == Init /\ [][Next]_vars

----------------------------------------------------------------------------
(* Shared-memory proxy: SharedMemoryDataset *)

\* __init__(manager): a container of the manager, or None without a manager.
ProxyInit ==
    /\ \/ /\ shared_memory_dataset = NoContainer
          /\ created = 0
       \/ /\ shared_memory_dataset = 1
          /\ created = 1
    /\ containers = [c \in ContainerIds |-> NoArtifact]
    /\ presult = [w \in Workers |-> NoProxyResult]
    /\ StoreUnused

\* set_manager that keeps a container the proxy is already bound to.
SetManager_KeepBound ==
    /\ created < MaxContainers
    /\ created' = created + 1
    /\ shared_memory_dataset' =
          IF shared_memory_dataset = NoContainer THEN created + 1
          ELSE shared_memory_dataset
    /\ UNCHANGED <<containers, presult>>
    /\ UNCHANGED hdfVars

\* set_manager(manager): bind a container the manager newly creates.
SetManager ==
    /\ created < MaxContainers
    /\ created' = created + 1
    /\ shared_memory_dataset' = created + 1
    /\ UNCHANGED <<containers, presult>>
    /\ UNCHANGED hdfVars

\* _load
ProxyLoad(w) ==
    /\ presult' = [presult EXCEPT ![w] =
          IF shared_memory_dataset = NoContainer
          THEN [NoProxyResult EXCEPT !.op = "load",
                                     !.kind = NoneAttribute("load").kind,
                                     !.msg = NoneAttribute("load").msg]
          ELSE IF containers[shared_memory_dataset] = NoArtifact
          THEN [NoProxyResult EXCEPT !.op = "load", !.remote = TRUE,
                                     !.kind = RemoteLoadEmpty.kind,
                                     !.msg = RemoteLoadEmpty.msg]
          ELSE [NoProxyResult EXCEPT !.op = "load", !.remote = TRUE, !.kind = "ok",
                                     !.val = containers[shared_memory_dataset]]]
    /\ UNCHANGED <<shared_memory_dataset, created, containers>>
    /\ UNCHANGED hdfVars

\* _save that re-raises the remote failure without any dry run.
SaveRaises_Reraise(exc, a) == exc

\* _save that reports every remote failure as a serialisation failure.
SaveRaises_AlwaysWrap(exc, a) ==
    IF exc = Accepted THEN Accepted ELSE CannotBeSerialised(a)

\* _save that swallows whatever the remote save raised.
SaveRaises_Swallow(exc, a) == Accepted

\* _save that probes the data before looking at the remote outcome.
SaveRaises_ProbeFirst(exc, a) ==
    IF ~Picklable(a) THEN CannotBeSerialised(a) ELSE exc

\* What _save(data) raises, given what self.shared_memory_dataset.save(data)
\* raised (exc): nothing, the DatasetError of the failed dry run, or exc itself.
SaveRaises(exc, a) ==
    IF exc = Accepted THEN Accepted
    ELSE IF ~Picklable(a) THEN CannotBeSerialised(a)
    ELSE exc

\* _save(data); remote is what the container's save does when it is called.
ProxySave(w, a, remote) ==
    LET bound == shared_memory_dataset # NoContainer
        exc   == IF bound THEN remote ELSE NoneAttribute("save")
        out   == SaveRaises(exc, a)
    IN /\ containers' = IF bound /\ remote = Accepted
                        THEN [containers EXCEPT ![shared_memory_dataset] = a]
                        ELSE containers
       /\ presult' = [presult EXCEPT ![w] =
             [NoProxyResult EXCEPT !.op = "save", !.kind = out.kind, !.msg = out.msg,
                                   !.arg = a, !.remote = bound,
                                   !.dryRun = (exc # Accepted), !.fault = exc]]
       /\ UNCHANGED <<shared_memory_dataset, created>>
       /\ UNCHANGED hdfVars

ProxyNext ==
    \/ SetManager
    \/ \E w \in Workers : ProxyLoad(w)
    \/ \E w \in Workers, a \in Artifacts, remote \in RemoteSaveOutcomes :
           ProxySave(w, a, remote)

ProxySpec == ProxyInit /\ [][ProxyNext]_vars

----------------------------------------------------------------------------
(* Properties of the versioned store *)

SaveOutcome(kind) == Returned("save", kind, NoData)

LoadNotFound == Returned("load", "NotFoundError", NoData)

\* The step in which handle h runs the check half of _save.
ChecksNow(h) == pc[h] = "save_written" /\ pc'[h] = "idle"

\* The step in which handle h runs the write half of _save.
WritesNow(h) == pc[h] = "idle" /\ pc'[h] = "save_written"

\* The step in which handle h resolves its load path inside _load.
ResolvesNow(h) ==
    /\ pc[h] = "idle"
    /\ \/ pc'[h] = "load_resolved"
       \/ result'[h] = LoadNotFound /\ result[h] # LoadNotFound

\* Some existing version sorts after the version of path p.
NewerThan(f, p) == \E q \in Paths : f[q].isFile /\ PathLess(p, q)

\* p is the path of the greatest existing version.
IsLatest(f, p) ==
    /\ p \in Paths
    /\ f[p].isFile
    /\ \A q \in Paths : f[q].isFile => (q = p \/ PathLess(q, p))

\* The save version handle h has settled on (NoVersion before its first save).
SettledSave(h) == IF version[h].save # NoVersion THEN version[h].save ELSE cachedSave[h]

\* C1: when an unpinned handle's save reaches its consistency check, the file
\* it wrote is at its save path; the save raises ConsistencyError exactly when a
\* newer version is visible at that moment, and it returns normally only if its
\* save path is then the default load path (the greatest existing version).
C1_UnpinnedSaveChecked ==
    [][\A h \in Handles :
          (version[h].load = NoVersion /\ ChecksNow(h)) =>
             /\ fs[savePath[h]].isFile
             /\ NewerThan(fs, savePath[h]) => result'[h] = SaveOutcome("ConsistencyError")
             /\ result'[h] = SaveOutcome("ok") => IsLatest(fs, savePath[h])
             /\ result'[h] \in {SaveOutcome("ok"), SaveOutcome("ConsistencyError")}
      ]_vars

\* An unpinned save has raised ConsistencyError and another unpinned save has
\* returned normally.
C1_Witness ==
    \E h, g \in Handles :
        /\ version[h].load = NoVersion /\ result[h] = SaveOutcome("ConsistencyError")
        /\ version[g].load = NoVersion /\ result[g] = SaveOutcome("ok")

\* C2: a save by a handle whose load_version is pinned, to whatever value,
\* raises no error.
C2_PinnedSaveNeverRaises ==
    \A h \in Handles :
        (version[h].load # NoVersion /\ result[h].op = "save") => result[h].kind = "ok"

\* C6: when an unpinned handle resolves its load path, it fails with
\* NotFoundError if no version exists and otherwise gets the path of the
\* greatest existing version in string order; the answer depends on the
\* listing alone.
C6_UnpinnedLoadIsLatest ==
    [][\A h \in Handles :
          (version[h].load = NoVersion /\ ResolvesNow(h)) =>
             IF \A q \in Paths : ~fs[q].isFile
             THEN result'[h] = LoadNotFound /\ pc'[h] = "idle"
             ELSE pc'[h] = "load_resolved" /\ IsLatest(fs, loadPath'[h])
      ]_vars

\* An unpinned handle has resolved the greatest of two existing versions, which
\* is not the version it saves to.
C6_Witness ==
    \E h \in Handles :
        /\ version[h].load = NoVersion
        /\ pc[h] = "load_resolved"
        /\ \E q \in Paths : fs[q].isFile /\ PathLess(q, loadPath[h])
        /\ loadPath[h] # VersionedPath(SettledSave(h))

\* C7: when a handle pinned to version V resolves its load path, it gets
\* exactly V's path if a file exists there, also when newer versions exist, and
\* fails with NotFoundError if none exists there, whatever else exists.
C7_PinnedLoadIsExact ==
    [][\A h \in Handles :
          (version[h].load # NoVersion /\ ResolvesNow(h)) =>
             IF fs[VersionedPath(version[h].load)].isFile
             THEN pc'[h] = "load_resolved"
                  /\ loadPath'[h] = VersionedPath(version[h].load)
             ELSE result'[h] = LoadNotFound /\ pc'[h] = "idle"
      ]_vars

\* A pinned load has failed with NotFoundError although another version exists.
C7_Witness ==
    \E h \in Handles :
        /\ version[h].load # NoVersion
        /\ result[h] = LoadNotFound
        /\ ~fs[VersionedPath(version[h].load)].isFile
        /\ \E q \in Paths : fs[q].isFile

\* C8: a handle constructed without save_version keeps the version its first
\* save generated: the cached version never changes, and every save of the
\* handle writes at that version's path.
C8_AutoSaveVersionStable ==
    [][\A h \in Handles :
          version[h].save = NoVersion =>
             /\ cachedSave[h] # NoVersion => cachedSave'[h] = cachedSave[h]
             /\ WritesNow(h) =>
                   /\ cachedSave'[h] \in Versions
                   /\ savePath'[h] = VersionedPath(cachedSave'[h])
                   /\ fs'[savePath'[h]].isFile
                   /\ fs'[savePath'[h]].groups[KeyWithSlash(key[h])] # NoData
      ]_vars

\* A handle with a generated save version is in a later save, after the clock
\* has moved on: the other handle, which writes elsewhere, has loaded from the
\* generated version's file data that this save has just replaced.
C8_Witness ==
    \E h, g \in Handles :
        /\ version[h].save = NoVersion
        /\ pc[h] = "save_written"
        /\ cachedSave[h] # Timestamp(clock)
        /\ g # h
        /\ version[g].save # NoVersion /\ version[g].save # cachedSave[h]
        /\ version[g].load = cachedSave[h]
        /\ result[g].op = "load" /\ result[g].kind = "ok"
        /\ KeyWithSlash(key[g]) = KeyWithSlash(key[h])
        /\ ReadHdf(fs[savePath[h]], key[h]) # result[g].val

\* C9: after a save has raised ConsistencyError, the file it wrote is still at
\* its save path with the handle's group in it, so a load pinned to that save
\* version resolves to it and reads data.
C9_FailedSaveNotRolledBack ==
    \A h \in Handles :
        result[h] = SaveOutcome("ConsistencyError") =>
            LET sp == VersionedPath(SettledSave(h))
            IN /\ SettledSave(h) \in Versions
               /\ fs[sp].isFile
               /\ ReadHdf(fs[sp], key[h]) # NoData
               /\ GetLoadPath(SettledSave(h), fs) = sp

\* A save has raised ConsistencyError.
C9_Witness ==
    \E h \in Handles : result[h] = SaveOutcome("ConsistencyError")

\* C10: the write half of a save changes the file at its save path and no
\* other file, and the check half changes no file, whatever the save's outcome.
C10_SaveTouchesOnlyItsVersion ==
    [][\A h \in Handles :
          /\ WritesNow(h) =>
                /\ savePath'[h] = VersionedPath(SettledSave(h)')
                /\ fs'[savePath'[h]].isFile
                /\ \A p \in Paths : p # savePath'[h] => fs'[p] = fs[p]
          /\ ChecksNow(h) => fs' = fs
      ]_vars

\* A save has written while a file of another version exists.
C10_Witness ==
    \E h \in Handles :
        /\ pc[h] = "save_written"
        /\ \E p \in Paths : p # savePath[h] /\ fs[p].isFile

\* No handle other than h has saved anything.
OthersSilent(h) == \A g \in Handles \ {h} : saved[g] = NoData

\* The step in which handle h runs _exists and gets a new answer.
ExistsNow(h) ==
    /\ pc[h] = "idle" /\ pc'[h] = "idle"
    /\ result'[h].op = "exists"
    /\ result'[h] # result[h]

\* The step in which handle h runs the read half of _load.
ReadsNow(h) == pc[h] = "load_resolved" /\ pc'[h] = "idle"

\* C11: for an unpinned handle on a base path no other handle writes to, a
\* load before any save fails with NotFoundError; a save writes the file at
\* base/version/filename (the version generated from the clock when none was
\* given) and returns normally; after it exists() is true and load() returns
\* exactly the data saved.
C11_SoloSaveExistsLoad ==
    [][\A h \in Handles :
          (version[h].load = NoVersion /\ OthersSilent(h)) =>
             /\ WritesNow(h) =>
                   /\ savePath'[h] = <<BasePath, SettledSave(h)', FileName>>
                   /\ fs'[savePath'[h]].isFile
                   /\ (version[h].save = NoVersion /\ saved[h] = NoData)
                         => SettledSave(h)' = Timestamp(clock)
             /\ ChecksNow(h) => result'[h] = SaveOutcome("ok")
             /\ ExistsNow(h) =>
                   result'[h].kind = (IF saved[h] # NoData THEN "true" ELSE "false")
             /\ ResolvesNow(h) =>
                   IF saved[h] # NoData
                   THEN pc'[h] = "load_resolved"
                        /\ loadPath'[h] = VersionedPath(SettledSave(h))
                   ELSE result'[h] = LoadNotFound
             /\ ReadsNow(h) => result'[h] = Returned("load", "ok", saved[h])
      ]_vars

\* An unpinned handle with a generated save version, alone on the base path,
\* has loaded the data it saved.
C11_Witness ==
    \E h \in Handles :
        /\ version[h].load = NoVersion /\ version[h].save = NoVersion
        /\ OthersSilent(h)
        /\ saved[h] # NoData
        /\ result[h] = Returned("load", "ok", saved[h])

\* During a save of handle h, after its write: the load path _save resolves
\* next is its save path.
Coincide(h) == GetLoadPath(version[h].load, fs) = savePath[h]

\* C14 as stated: the two paths coincide only when load_version and
\* save_version are both unset and no newer version has been written.
C14_CoincideOnlyWhenAuto ==
    \A h \in Handles :
        (pc[h] = "save_written" /\ Coincide(h)) =>
            /\ version[h].load = NoVersion
            /\ version[h].save = NoVersion
            /\ ~NewerThan(fs, savePath[h])

\* C14, amended: the two paths coincide exactly when the load version
\* resolves to the save version: with load_version pinned, when it is the save
\* version; with load_version unset, when no version newer than the save
\* version exists, whether the save version was given or generated.
C14_CoincideExactly ==
    \A h \in Handles :
        pc[h] = "save_written" =>
            (Coincide(h) <=>
                IF version[h].load # NoVersion
                THEN version[h].load = SettledSave(h)
                ELSE ~NewerThan(fs, savePath[h]))

\* A handle whose pinned load_version is its given save_version has written,
\* and its load path is its save path.
C14_Witness ==
    \E h \in Handles :
        /\ pc[h] = "save_written"
        /\ version[h].load # NoVersion
        /\ version[h].save # NoVersion
        /\ Coincide(h)

\* What handle h saved last is in its group of the file at its save version,
\* unless another handle saves to the same version.
NotLost ==
    \A h \in Handles :
        saved[h] # NoData =>
            /\ fs[VersionedPath(SettledSave(h))].isFile
            /\ (\A g \in Handles \ {h} : SettledSave(g) # SettledSave(h)) =>
                   ReadHdf(fs[VersionedPath(SettledSave(h))], key[h]) = saved[h]

\* C15: when two unpinned handles save to one base path, a handle's check
\* raises ConsistencyError exactly when the other handle's save version is the
\* greater one and its file is already written; so the handle with the greater
\* version never raises, and the other raises exactly when the greater
\* version's write came before its check. Neither write is lost or undone.
C15_RaceDetectedByLowerVersion ==
    [][/\ \A h \in Handles : \A g \in Handles \ {h} :
             (version[h].load = NoVersion /\ version[g].load = NoVersion
                  /\ ChecksNow(h)) =>
                 LET sh == SettledSave(h)
                     sg == SettledSave(g)
                 IN /\ result'[h] \in {SaveOutcome("ok"), SaveOutcome("ConsistencyError")}
                    /\ result'[h] = SaveOutcome("ConsistencyError") <=>
                          /\ sg # NoVersion
                          /\ LexLess(sh, sg)
                          /\ fs[VersionedPath(sg)].isFile
       /\ NotLost'
      ]_vars

\* Both handles are unpinned and have saved; the one with the lesser version
\* raised ConsistencyError, the one with the greater returned normally, and
\* both files hold what was saved.
C15_Witness ==
    \E h \in Handles : \E g \in Handles \ {h} :
        /\ version[h].load = NoVersion /\ version[g].load = NoVersion
        /\ LexLess(SettledSave(h), SettledSave(g))
        /\ result[h] = SaveOutcome("ConsistencyError")
        /\ result[g] = SaveOutcome("ok")
        /\ ReadHdf(fs[VersionedPath(SettledSave(h))], key[h]) = saved[h]
        /\ ReadHdf(fs[VersionedPath(SettledSave(g))], key[g]) = saved[g]

\* Handle h's load path cannot be resolved: nothing at the pinned version, or
\* no version at all.
Unresolvable(h) ==
    IF version[h].load # NoVersion
    THEN ~fs[VersionedPath(version[h].load)].isFile
    ELSE \A q \in Paths : ~fs[q].isFile

\* C16: _exists answers true or false and never raises: false when the load
\* path cannot be resolved, true only when the file at the resolved load path
\* holds the handle's key; it leaves files and handle state as they were.
C16_ExistsNeverRaises ==
    [][\A h \in Handles :
          /\ result'[h].op = "exists" => result'[h].kind \in {"true", "false"}
          /\ ExistsNow(h) =>
                /\ Unresolvable(h) => result'[h].kind = "false"
                /\ result'[h].kind = "true" =>
                      \E p \in Paths :
                         /\ IF version[h].load # NoVersion
                            THEN p = VersionedPath(version[h].load)
                            ELSE IsLatest(fs, p)
                         /\ fs[p].isFile
                         /\ fs[p].groups[KeyWithSlash(key[h])] # NoData
                /\ fs' = fs
                /\ UNCHANGED <<clock, version, key, cachedSave, savePath, loadPath, saved>>
      ]_vars

\* _exists has answered false although the load path resolves to a file: the
\* file does not hold the handle's key.
C16_Witness ==
    \E h \in Handles :
        /\ result[h] = Returned("exists", "false", NoData)
        /\ ~Unresolvable(h)
        /\ ReadHdf(fs[GetLoadPath(version[h].load, fs)], key[h]) = NoData

----------------------------------------------------------------------------
(* Properties of the shared-memory proxy *)

\* The proxy was constructed without a manager and never attached.
NeverBound == created = 0

\* The type name appears in the message.
Mentions(msg, cls) == \E i \in 1..Len(msg) : msg[i] = cls

\* The failure of a proxy that is used while unbound.
IsUnboundError(r) == r.kind = "AttributeError"

\* C3: on a proxy that was never bound, load and save fail with the unbound
\* error, before any remote call and before any serialisation dry run.
C3_UnboundFailsFast ==
    \A w \in Workers :
        (NeverBound /\ presult[w].op # "none") =>
            /\ IsUnboundError(presult[w])
            /\ ~presult[w].remote
            /\ ~presult[w].dryRun

\* C4: on a bound proxy, a save whose remote call failed and whose data cannot
\* be pickled raises the DatasetError that names the data's class, not the
\* remote failure.
C4_NonTransferableNamed ==
    \A w \in Workers :
        LET r == presult[w]
        IN (r.op = "save" /\ r.remote /\ r.fault # Accepted /\ ~Picklable(r.arg)) =>
              /\ r.kind = "DatasetError"
              /\ Mentions(r.msg, r.arg.cls)
              /\ Raised(r.kind, r.msg) # r.fault

\* A bound save of data that cannot be pickled has failed remotely.
C4_Witness ==
    \E w \in Workers :
        /\ presult[w].op = "save" /\ presult[w].remote
        /\ presult[w].fault \in RemoteFaults
        /\ presult[w].arg.cls = "Socket"

\* C5: on a bound proxy, a save whose remote call failed although the data can
\* be pickled raises that remote failure itself, kind and message.
C5_RemoteFailureReraised ==
    \A w \in Workers :
        LET r == presult[w]
        IN (r.op = "save" /\ r.remote /\ r.fault # Accepted /\ Picklable(r.arg)) =>
              /\ Raised(r.kind, r.msg) = r.fault
              /\ r.kind # "DatasetError"
              /\ r.dryRun

\* A bound save of data that can be pickled has failed remotely.
C5_Witness ==
    \E w \in Workers :
        /\ presult[w].op = "save" /\ presult[w].remote
        /\ presult[w].fault \in RemoteFaults
        /\ presult[w].arg.cls = "DataFrame"

\* The step in which worker w gets a new outcome from a proxy call.
CallsNow(w) == presult'[w] # presult[w]

\* C12: on a bound proxy used by several workers, a save that returns normally
\* leaves its artifact in the bound container, a save that raises leaves the
\* container as it was, nothing else changes the container, and a load returns
\* the container's artifact unchanged: the last save that succeeded before it.
C12_LastSuccessfulSaveWins ==
    [][shared_memory_dataset # NoContainer =>
          LET c == shared_memory_dataset
          IN /\ \A w \in Workers :
                   CallsNow(w) =>
                      LET r == presult'[w]
                      IN /\ (r.op = "save" /\ r.kind = "ok") =>
                               containers' = [containers EXCEPT ![c] = r.arg]
                         /\ (r.op = "save" /\ r.kind # "ok") => containers' = containers
                         /\ r.op = "load" =>
                               /\ containers' = containers
                               /\ IF containers[c] = NoArtifact
                                  THEN Raised(r.kind, r.msg) = RemoteLoadEmpty
                                  ELSE r.kind = "ok" /\ r.val = containers[c]
             /\ containers' # containers =>
                   /\ \E w \in Workers :
                         /\ presult'[w].op = "save" /\ presult'[w].kind = "ok"
                         /\ presult'[w].arg = containers'[c]
                   /\ \A d \in ContainerIds : d # c => containers'[d] = containers[d]
      ]_vars

\* One worker's save succeeded, then another artifact was saved, and the other
\* worker's load returned that later artifact.
C12_Witness ==
    \E w, v \in Workers :
        /\ shared_memory_dataset # NoContainer
        /\ presult[w].op = "save" /\ presult[w].kind = "ok"
        /\ presult[v].op = "load" /\ presult[v].kind = "ok"
        /\ presult[v].val # presult[w].arg
        /\ presult[v].val = containers[shared_memory_dataset]

\* The step in which set_manager runs.
AttachesNow == created' # created

\* C13: every set_manager call binds the proxy to a container the manager has
\* just created, empty, in place of the earlier one and without touching any
\* container's content; saves change only the newest container and loads
\* return only its content, so nothing saved before a re-attach is loaded
\* after it.
C13_AttachRebindsToFresh ==
    [][/\ AttachesNow =>
             /\ created' = created + 1
             /\ shared_memory_dataset' = created'
             /\ shared_memory_dataset' # shared_memory_dataset
             /\ containers[shared_memory_dataset'] = NoArtifact
             /\ containers' = containers
       /\ \A d \in ContainerIds :
             containers'[d] # containers[d] => d = shared_memory_dataset /\ d = created
       /\ \A w \in Workers :
             (CallsNow(w) /\ presult'[w].op = "load" /\ presult'[w].kind = "ok") =>
                 presult'[w].val = containers[created]
      ]_vars

\* After a second binding the first container still holds what was saved to
\* it, and a load through the proxy has found the new container empty.
C13_Witness ==
    \E w \in Workers :
        /\ created = 2 /\ shared_memory_dataset = 2
        /\ containers[1] # NoArtifact
        /\ containers[2] = NoArtifact
        /\ presult[w].op = "load"
        /\ Raised(presult[w].kind, presult[w].msg) = RemoteLoadEmpty

\* C17: on a bound proxy, save raises exactly when the container's save
\* failed, and the dry run is made only after such a failure; a save the
\* container accepts returns normally, whatever the data.
C17_RaisesIffRemoteFails ==
    \A w \in Workers :
        LET r == presult[w]
        IN (r.op = "save" /\ r.remote) =>
              /\ r.kind # "ok" <=> r.fault # Accepted
              /\ r.dryRun => r.fault # Accepted

\* A bound save of data that cannot be pickled was accepted by the container
\* and returned normally.
C17_Witness ==
    \E w \in Workers :
        /\ presult[w].op = "save" /\ presult[w].remote
        /\ ~Picklable(presult[w].arg)
        /\ presult[w].fault = Accepted
        /\ presult[w].kind = "ok"
        /\ containers[shared_memory_dataset] = presult[w].arg

====
